---- MODULE Spec2Model ----
(***************************************************************************)
(* State-machine model of obexd/client/transfer.c: one transfer record of  *)
(* the OBEX client, the entry points that start and abort an exchange, and *)
(* the four continuation callbacks the transport (gw-obex) invokes.        *)
(*                                                                         *)
(* The transport and the local file system are the environment: whatever   *)
(* they return to a handler is an input of the handler's action, drawn     *)
(* from the outcomes they can produce.                                     *)
(***************************************************************************)
EXTENDS Integers, Sequences, FiniteSets, TLC

(* ------------------------------ bounds --------------------------------- *)

\* #define DEFAULT_BUFFER_SIZE 4096, scaled down so that a remote object
\* spans several buffers.
DEFAULT_BUFFER_SIZE == 2

\* Longest remote object, local file or caller-supplied buffer, in bytes.
MaxObj == 3

\* Number of start calls (transfer_get/transfer_put) that get past the
\* already-started check in one behaviour.
MaxStarts == 2

\* Descriptors the process may hold open at once (open() fails beyond it).
MaxOpenFiles == 2

\* How far past the allocation a strlen() over a buffer without terminator
\* may run before it meets a zero byte.
StrlenOverrun == 1

(* --------------------------- program constants ------------------------- *)

ECANCELED == 125
EALREADY == 114
ENOTCONN == 107

\* errno values left by a failing open/fstat/read/write.
Errnos == {5}

\* Error codes the transport stores through its error out-parameter.
XferErrors == {1}

NULL == "NULL"
XFER == "xfer"

\* Bytes. NUL is the string terminator, UNINIT an indeterminate byte (memory
\* g_realloc returned and nothing has written yet).
NUL == "0"
UNINIT == "?"
DataBytes == [i \in 1..MaxObj |-> <<"a", "b", "c", "d", "e", "f">>[((i - 1) % 6) + 1]]

\* The two callbacks a caller may pass to transfer_get/transfer_put.
Funcs == {"f1", "f2"}

Types == {"x-bt/vcard-listing", "x-obex/folder-listing", "x-bt/vcard", "text/plain"}

(* ------------------------------ helpers -------------------------------- *)

Min(a, b) == IF a < b THEN a ELSE b

Fill(n, b) == [i \in 1..n |-> b]

\* g_new0(char, n)
Zeroed(n) == Fill(n, NUL)

\* g_realloc(buf, n): the old contents up to n, the rest indeterminate.
Realloc(buf, n) == [i \in 1..n |-> IF i <= Len(buf) THEN buf[i] ELSE UNINIT]

\* memcpy of chunk to buf + off (the transport's read, read(2)): defined for
\* off + Len(chunk) <= Len(buf).
CopyAt(buf, off, chunk) ==
    [i \in 1..Len(buf) |->
        IF i > off /\ i <= off + Len(chunk) THEN chunk[i - off] ELSE buf[i]]

\* A memmove that is left out.
MoveDownSkipped(buf, from, n) == buf

\* memmove(buf, buf + from, n)
MoveDown(buf, from, n) ==
    [i \in 1..Len(buf) |-> IF i <= n /\ i + from <= Len(buf) THEN buf[i + from] ELSE buf[i]]

CanBeNul(b) == b \in {NUL, UNINIT}
CanBeData(b) == b # NUL

\* strlen(buf): the index of the first terminator. An indeterminate byte may
\* or may not be one; with no terminator inside the allocation the scan runs
\* past its end.
StrlenOutcomes(buf) ==
    {i \in 0..(Len(buf) - 1) :
        CanBeNul(buf[i + 1]) /\ \A j \in 1..i : CanBeData(buf[j])}
    \cup (IF \A j \in 1..Len(buf) : CanBeData(buf[j])
          THEN Len(buf)..(Len(buf) + StrlenOverrun)
          ELSE {})

\* g_strcmp0(type, "x-bt/vcard-listing") == 0 || g_strcmp0(type, "x-obex/folder-listing") == 0
IsListing(type) == type \in {"x-bt/vcard-listing", "x-obex/folder-listing"}

(* ------------------------------- state --------------------------------- *)

VARIABLES
    transfer,   \* struct transfer_data
    direction,  \* "GET" or "PUT": the entry point the owner drives this transfer with
    obex,       \* the transport: installed continuation, remote object, read position, bytes accepted
    local,      \* the local file system: file contents, offset of transfer.fd, open descriptors
    starts,     \* start calls made so far
    hist,       \* what happened since the last successful start
    step,       \* what the last handler did
    session,    \* struct session_data and the bus: agent, references, pending list, object paths
    life        \* "none" before transfer_register, "live" after it, "freed" after transfer_free

vars == <<transfer, direction, obex, local, starts, hist, step, session, life>>

\* One invocation of callback->func(transfer, transferred, err, data); xfer is
\* transfer->xfer at the moment of the call and why the branch that led to it.
Delivery(t, n, e, why) ==
    IF t.callback = NULL THEN <<>>
    ELSE <<[func |-> t.callback, transferred |-> n, err |-> e,
            xfer |-> t.xfer, size |-> t.size, why |-> why]>>

\* One call a handler made to the transport or to the local file system:
\* arg is the byte count it passed (0 where there is none), res the result
\* (a count, a descriptor, 1/0 for success/failure of a call without count,
\* -1 for a failed call with one).
Call(call, arg, res) == [call |-> call, arg |-> arg, res |-> res]

NoStep ==
    [op |-> "none",     \* the handler
     ret |-> 0,         \* its return value
     cbs |-> <<>>,      \* the callbacks it delivered
     io |-> <<>>,       \* the calls it made, in order
     why |-> "none"]    \* the branch a continuation left by: progress, complete or error

Did(s, c) == [s EXCEPT !.io = Append(@, c)]

Calls(s, call) == SelectSeq(s.io, LAMBDA c : c.call = call)

\* g_new0(struct transfer_data, 1) and the copies of the caller's strings:
\* every other field is zero.
New(type) ==
    [type |-> type, path |-> NULL, xfer |-> NULL, fd |-> 0, buffer |-> <<>>,
     buffer_len |-> 0, filled |-> 0, size |-> 0, transferred |-> 0, err |-> 0,
     callback |-> NULL]

\* The spelling of a type string, for the comparisons the code makes byte by
\* byte.
Spell(type) ==
    CASE type = "x-bt/vcard-listing" ->
            <<"x", "-", "b", "t", "/", "v", "c", "a", "r", "d", "-", "l", "i", "s", "t", "i", "n", "g">>
      [] type = "x-obex/folder-listing" ->
            <<"x", "-", "o", "b", "e", "x", "/", "f", "o", "l", "d", "e", "r", "-", "l", "i", "s", "t", "i", "n", "g">>
      [] type = "x-bt/vcard" -> <<"x", "-", "b", "t", "/", "v", "c", "a", "r", "d">>
      [] type = "text/plain" -> <<"t", "e", "x", "t", "/", "p", "l", "a", "i", "n">>
      [] type = "x-obexd/log" -> <<"x", "-", "o", "b", "e", "x", "d", "/", "l", "o", "g">>
      [] type = "x-bt" -> <<"x", "-", "b", "t">>

\* strncmp(a, b, n) == 0 on spelled strings: the first n bytes agree, a
\* string shorter than n ending where the other does.
StrncmpEqual(a, b, n) ==
    /\ \A i \in 1..n : (i <= Len(a) /\ i <= Len(b)) => a[i] = b[i]
    /\ Len(a) < n \/ Len(b) < n => Len(a) = Len(b)

\* A test that compares one byte less of each prefix.
UnpublishedLoose(type) ==
    /\ type # NULL
    /\ \/ StrncmpEqual(Spell(type), <<"x", "-", "o", "b", "e", "x">>, 6)
       \/ StrncmpEqual(Spell(type), <<"x", "-", "b", "t">>, 4)

\* The test of transfer_register for the types that get no object path.
Unpublished(type) ==
    /\ type # NULL
    /\ \/ StrncmpEqual(Spell(type), <<"x", "-", "o", "b", "e", "x", "/">>, 7)
       \/ StrncmpEqual(Spell(type), <<"x", "-", "b", "t", "/">>, 5)

\* g_strdup_printf("%s/transfer%ju", TRANSFER_BASEPATH, counter)
Paths == <<"/org/openobex/transfer0", "/org/openobex/transfer1", "/org/openobex/transfer2">>
PathOf(counter) == Paths[counter + 1]

\* The session before the transfer exists: its owner holds one reference,
\* its agent is the bus name that asked for the transfer. objects are the
\* object paths registered on the connection, counter the file's static
\* counter.
Senders == {":1.7", ":1.9"}
BaseSession(counter) ==
    [agent |-> ":1.7", refs |-> 1, pending |-> <<>>, objects |-> {}, counter |-> counter]

\* A release that keeps the session reference.
DetachedKeepsReference(sess) ==
    [sess EXCEPT !.pending = SelectSeq(@, LAMBDA p : p # "transfer")]

\* transfer_free without the transport and descriptor part (see
\* TransferFree): g_slist_remove and session_unref.
Detached(sess) ==
    [sess EXCEPT !.pending = SelectSeq(@, LAMBDA p : p # "transfer"),
                 !.refs = @ - 1]

\* transfer_register: the new transfer, the session after the call and
\* whether a transfer was returned. regok is the result of
\* g_dbus_register_interface.
TransferRegister(sess, type, regok) ==
    LET t0 == New(type)
        s0 == [sess EXCEPT !.refs = @ + 1]
        done(t, s) == [t |-> t, session |-> [s EXCEPT !.pending = Append(@, "transfer")],
                       ok |-> TRUE]
    IN  IF Unpublished(type) THEN done(t0, s0)
        ELSE LET t1 == [t0 EXCEPT !.path = PathOf(s0.counter)]
                 s1 == [s0 EXCEPT !.counter = @ + 1]
             IN  IF ~regok THEN [t |-> t1, session |-> Detached(s1), ok |-> FALSE]
                 ELSE done(t1, [s1 EXCEPT !.objects = @ \cup {t1.path}])

\* A transfer that transfer_register returned.
Registered(type) == TransferRegister(BaseSession(0), type, TRUE).t

\* The owner of a PUT from memory hands the transfer its data and length
\* before it calls transfer_put.
WithSourceBuffer(t, n) ==
    [t EXCEPT !.buffer = Fill(n, "a") \o <<NUL>>, !.size = n]

\* Remote objects: a listing is text that may contain or end with a
\* terminator, any other object is opaque data.
ListingObjects ==
    {Fill(n, "a") : n \in 0..MaxObj}
    \cup {[i \in 1..n |-> IF i = k THEN NUL ELSE "a"] : n \in 1..MaxObj, k \in 1..MaxObj}
FileObjects == {SubSeq(DataBytes, 1, n) : n \in 0..MaxObj}

\* The transport with no exchange open: cb is the continuation installed in
\* the open exchange, obj the remote object of a GET, size the length the
\* peer declared for it (0: none), pos how much of it has been read, sent
\* the bytes accepted from a PUT that reads a local file.
Idle(obj, declared) ==
    [cb |-> "none", obj |-> obj, size |-> declared, pos |-> 0, sent |-> <<>>]

\* The log of a handler that has just been entered.
Entered(op, t) == [NoStep EXCEPT !.op = op]

Outcome(t, x, l, s) == [t |-> t, x |-> x, l |-> l, s |-> s]

Start(t, x, file) ==
    /\ transfer = t
    /\ obex = x
    /\ local = [file |-> file, pos |-> 0, fds |-> {}]
    /\ starts = 0
    /\ hist = [cancels |-> 0, terminal |-> FALSE, failed |-> FALSE]
    /\ step = NoStep
    /\ session = TransferRegister(BaseSession(0), t.type, TRUE).session
    /\ life = "live"

\* The states after transfer_register: a GET of a listing, a GET into a
\* file, a PUT from memory (the owner has attached its data) and a PUT from
\* a file, each with one remote object or local file.
InitListing ==
    /\ direction = "GET"
    /\ \E type \in {ty \in Types : IsListing(ty)}, obj \in ListingObjects :
        Start(Registered(type), Idle(obj, Len(obj)), <<>>)

InitGetFile ==
    /\ direction = "GET"
    /\ \E type \in {ty \in Types : ~IsListing(ty)}, obj \in FileObjects :
       \E declared \in {Len(obj), 0} :
        Start(Registered(type), Idle(obj, declared), <<>>)

InitPutBuf ==
    /\ direction = "PUT"
    /\ \E type \in {ty \in Types : ~IsListing(ty)}, n \in 0..MaxObj :
        Start(WithSourceBuffer(Registered(type), n), Idle(<<>>, 0), <<>>)

InitPutFile ==
    /\ direction = "PUT"
    /\ \E type \in {ty \in Types : ~IsListing(ty)}, n \in 0..MaxObj :
        Start(Registered(type), Idle(<<>>, 0), SubSeq(DataBytes, 1, n))

Init == InitListing \/ InitGetFile \/ InitPutBuf \/ InitPutFile

(* --------------------------- starting a transfer ----------------------- *)

\* open(2): -1, or the lowest descriptor not in use (0, 1 and 2 are the
\* process's standard streams).
OpenResults(l) ==
    {-1} \cup (IF Cardinality(l.fds) < MaxOpenFiles
               THEN {CHOOSE d \in 3..(3 + MaxOpenFiles) :
                        d \notin l.fds /\ \A e \in 3..(d - 1) : e \in l.fds}
               ELSE {})

Opened(l, fd) == IF fd >= 0 THEN [l EXCEPT !.fds = @ \cup {fd}] ELSE l

\* transfer_set_callback
SetCallback(t, func) == [t EXCEPT !.callback = func]

\* A start that registers the caller's callback before it looks at the handle.
BeginExchangeRegistersFirst(t, x, l, s, func, handle, cb) ==
    LET t1 == [(IF func # NULL THEN SetCallback(t, func) ELSE t) EXCEPT !.xfer = handle]
        s1 == Did(s, Call("begin", 0, IF handle = NULL THEN 0 ELSE 1))
    IN  IF t1.xfer = NULL
        THEN Outcome(t1, x, l, [s1 EXCEPT !.ret = -ENOTCONN])
        ELSE Outcome(t1, [x EXCEPT !.cb = cb, !.pos = 0, !.sent = <<>>],
                     l, [s1 EXCEPT !.ret = 0])

\* The tail transfer_get and transfer_put share: the exchange is begun
\* (gw_obex_get_async[_with_apparam] / gw_obex_put_async returned handle);
\* without a handle the call returns -ENOTCONN, else the caller's callback is
\* registered and cb installed as the transport's continuation.
BeginExchange(t, x, l, s, func, handle, cb) ==
    LET t1 == [t EXCEPT !.xfer = handle]
        s1 == Did(s, Call("begin", 0, IF handle = NULL THEN 0 ELSE 1))
    IN  IF t1.xfer = NULL
        THEN Outcome(t1, x, l, [s1 EXCEPT !.ret = -ENOTCONN])
        ELSE Outcome(IF func # NULL THEN SetCallback(t1, func) ELSE t1,
                     [x EXCEPT !.cb = cb, !.pos = 0, !.sent = <<>>],
                     l, [s1 EXCEPT !.ret = 0])

\* The open-failure test of transfer_get: "if (transfer->fd < 0)" looks at the
\* field of the record, not at the descriptor open() just returned.
GetOpenFailed(t, fd) == t.fd < 0

\* A start that does not look at the handle.
AlreadyStartedIgnored(t) == FALSE

\* The already-started test of both entry points.
AlreadyStarted(t) == t.xfer # NULL

\* transfer_get(transfer, func, user_data); fd is what open() returns, errno
\* the value errno holds when it is read, handle what the transport returns.
TransferGet(t, x, l, func, fd, errno, handle) ==
    LET s == Entered("transfer_get", t) IN
    IF AlreadyStarted(t)
    THEN Outcome(t, x, l, [s EXCEPT !.ret = -EALREADY])
    ELSE IF IsListing(t.type)
    THEN BeginExchange(t, x, l, s, func, handle, "listing")
    ELSE LET l1 == Opened(l, fd)
             s1 == Did(s, Call("open", 0, fd))
         IN  IF GetOpenFailed(t, fd)
             THEN Outcome(t, x, l1, [s1 EXCEPT !.ret = -errno])
             ELSE BeginExchange([t EXCEPT !.fd = fd], x, [l1 EXCEPT !.pos = 0],
                                s1, func, handle, "get")

\* The source of a PUT: "if (transfer->buffer)" takes the in-memory path.
PutFromBuffer(t) == t.buffer # <<>>

\* transfer_put(transfer, func, user_data); statok is whether fstat succeeds.
TransferPut(t, x, l, func, fd, statok, errno, handle) ==
    LET s == Entered("transfer_put", t) IN
    IF AlreadyStarted(t)
    THEN Outcome(t, x, l, [s EXCEPT !.ret = -EALREADY])
    ELSE IF PutFromBuffer(t)
    THEN BeginExchange(t, x, l, s, func, handle, "put_buf")
    ELSE LET s1 == Did(s, Call("open", 0, fd))
             s2 == Did(s1, Call("fstat", 0, IF statok THEN 0 ELSE -1))
         IN  IF fd < 0
             THEN Outcome(t, x, l, [s1 EXCEPT !.ret = -errno])
             ELSE IF ~statok
             THEN Outcome(t, x, l, [Did(s2, Call("close", 0, 0)) EXCEPT !.ret = -errno])
             ELSE BeginExchange([t EXCEPT !.fd = fd, !.size = Len(l.file)], x,
                                [Opened(l, fd) EXCEPT !.pos = 0],
                                s2, func, handle, "put")

\* An abort that also rewinds the count.
TransferAbortRewinds(t, x, l) ==
    LET s == Entered("transfer_abort", t) IN
    IF t.xfer = NULL
    THEN Outcome(t, x, l, s)
    ELSE LET t1 == [t EXCEPT !.xfer = NULL, !.transferred = 0] IN
         Outcome(t1, [x EXCEPT !.cb = "none"], l,
                 [Did(s, Call("gw_obex_xfer_abort", 0, 1)) EXCEPT
                    !.cbs = Delivery(t1, t1.transferred, -ECANCELED, "cancel")])

\* An abort that leaves the handle in the record.
TransferAbortKeepsHandle(t, x, l) ==
    LET s == Entered("transfer_abort", t) IN
    IF t.xfer = NULL
    THEN Outcome(t, x, l, s)
    ELSE Outcome(t, [x EXCEPT !.cb = "none"], l,
                 [Did(s, Call("gw_obex_xfer_abort", 0, 1)) EXCEPT
                    !.cbs = Delivery(t, t.transferred, -ECANCELED, "cancel")])

\* transfer_abort
TransferAbort(t, x, l) ==
    LET s == Entered("transfer_abort", t) IN
    IF t.xfer = NULL
    THEN Outcome(t, x, l, s)
    ELSE LET t1 == [t EXCEPT !.xfer = NULL] IN
         Outcome(t1, [x EXCEPT !.cb = "none"], l,
                 [Did(s, Call("gw_obex_xfer_abort", 0, 1)) EXCEPT
                    !.cbs = Delivery(t1, t1.transferred, -ECANCELED, "cancel")])

(* ----------------------------- continuations --------------------------- *)

\* The callback at the done: label of a continuation.
Report(t, x, l, s, n, e, why) ==
    Outcome(t, x, l, [s EXCEPT !.cbs = Delivery(t, n, e, why), !.why = why])

\* What gw_obex_xfer_read may deliver into bsize bytes of room.
ReadLens(x, bsize) == 0..Min(IF bsize > 0 THEN bsize ELSE 0, Len(x.obj) - x.pos)

\* gw_obex_xfer_object_done after bread more bytes were taken.
DoneResults(x, bread) == IF x.pos + bread = Len(x.obj) THEN BOOLEAN ELSE {FALSE}

Chunk(x, bread) == SubSeq(x.obj, x.pos + 1, x.pos + bread)

\* "if (bsize < DEFAULT_BUFFER_SIZE)" of get_xfer_listing_progress: room for
\* one more increment is made before every read.
ListingRoom(t) ==
    IF t.buffer_len - t.filled < DEFAULT_BUFFER_SIZE
    THEN [t EXCEPT !.buffer_len = @ + DEFAULT_BUFFER_SIZE,
                   !.buffer = Realloc(@, t.buffer_len + DEFAULT_BUFFER_SIZE)]
    ELSE t

\* transfer->buffer[transfer->filled - 1] == '\0': with filled = 0 the byte
\* read lies before the allocation and may be anything.
LastIsNul(t) ==
    IF t.filled >= 1 /\ t.filled <= Len(t.buffer)
    THEN (IF t.buffer[t.filled] = UNINIT THEN BOOLEAN ELSE {t.buffer[t.filled] = NUL})
    ELSE BOOLEAN

\* The terminator appended when the object is done and does not end in one.
Terminate(t) ==
    LET t1 == IF t.buffer_len - t.filled < 1
              THEN [t EXCEPT !.buffer_len = @ + DEFAULT_BUFFER_SIZE,
                             !.buffer = Realloc(@, t.buffer_len + DEFAULT_BUFFER_SIZE)]
              ELSE t
    IN  [t1 EXCEPT !.buffer[t1.filled + 1] = NUL]

\* A listing continuation that reports the raw byte count.
ListingCountRaw(t) == t.filled

\* The count the listing continuation passes to the callback.
ListingCount(t) == t.size

\* done: of get_xfer_listing_progress: size = strlen(buffer), then the callback.
ListingDone(t, x, l, s, why) ==
    {Report(t1, x, l, s, ListingCount(t1), t1.err, why) :
        t1 \in {[t EXCEPT !.size = n] : n \in StrlenOutcomes(t.buffer)}}

\* get_xfer_listing_progress: ok/e are the result of gw_obex_xfer_read, bread
\* the bytes it delivered, done the result of gw_obex_xfer_object_done.
GetXferListingProgress(t, x, l, ok, e, bread, done) ==
    LET t0 == ListingRoom(t)
        s  == Did(Entered("get_xfer_listing_progress", t),
                  Call("gw_obex_xfer_read", t0.buffer_len - t0.filled, IF ok THEN bread ELSE -1))
    IN  IF ~ok
        THEN ListingDone([t0 EXCEPT !.err = e], x, l, s, "error")
        ELSE LET t1 == [t0 EXCEPT !.buffer = CopyAt(@, t0.filled, Chunk(x, bread)),
                                  !.filled = @ + bread]
                 x1 == [x EXCEPT !.pos = @ + bread]
             IN  IF done
                 THEN UNION {IF nul
                             THEN ListingDone(t1, x1, l, s, "complete")
                             ELSE ListingDone(Terminate(t1), x1, l, s, "complete") :
                             nul \in LastIsNul(t1)}
                 ELSE {Outcome(t1, x1, l, s)}

\* A continuation that never allocates its buffer.
ScratchSkipped(t) == t

\* "if (transfer->buffer_len == 0)" of get_xfer_progress and put_xfer_progress.
Scratch(t) ==
    IF t.buffer_len = 0
    THEN [t EXCEPT !.buffer_len = DEFAULT_BUFFER_SIZE, !.buffer = Zeroed(DEFAULT_BUFFER_SIZE)]
    ELSE t

\* A completion test on the buffer fill instead of the running total.
GetCompleteOnFilled(t) == t.filled = t.size

\* "if (transfer->transferred == transfer->size)" of get_xfer_progress.
GetComplete(t) == t.transferred = t.size

\* get_xfer_progress: w is the result of write(2), errno its errno.
GetXferProgress(t, x, l, ok, e, bread, w, errno) ==
    LET t0 == Scratch(t)
        s  == Did(Entered("get_xfer_progress", t),
                  Call("gw_obex_xfer_read", t0.buffer_len - t0.filled, IF ok THEN bread ELSE -1))
    IN  IF ~ok
        THEN LET t1 == [t0 EXCEPT !.err = e]
             IN  Report(t1, x, l, s, t1.transferred, t1.err, "error")
        ELSE LET t1 == [t0 EXCEPT !.buffer = CopyAt(@, t0.filled, Chunk(x, bread)),
                                  !.filled = @ + bread,
                                  !.transferred = @ + bread,
                                  !.size = IF @ = 0 THEN x.size ELSE @]
                 x1 == [x EXCEPT !.pos = @ + bread]
                 wr == t1.fd > 0
                 s1 == IF wr THEN Did(s, Call("write", bread, w)) ELSE s
             IN  IF wr /\ w < 0
                 THEN LET t2 == [t1 EXCEPT !.err = -errno]
                      IN  Report(t2, x1, l, s1, t2.transferred, t2.err, "error")
                 ELSE LET t2 == IF wr THEN [t1 EXCEPT !.filled = 0] ELSE t1
                      IN  IF GetComplete(t2)
                          THEN Report(t2, x1, l, s1, t2.transferred, t2.err, "complete")
                          ELSE Report(t2, x1, l, Did(s1, Call("gw_obex_xfer_flush", 0, 1)),
                                      t2.transferred, t2.err, "progress")

\* "if (transfer->transferred == transfer->size) goto done" of put_buf_xfer_progress.
PutBufComplete(t) == t.transferred = t.size

\* An advance by everything that was offered.
PutBufAdvanceOffered(t, written) == [t EXCEPT !.transferred = t.size]

\* The advance of transferred after a write the transport accepted.
PutBufAdvance(t, written) == [t EXCEPT !.transferred = @ + written]

\* put_buf_xfer_progress: ok/e/written are the result of gw_obex_xfer_write,
\* fok/fe of gw_obex_xfer_flush.
PutBufXferProgress(t, x, l, ok, e, written, fok, fe) ==
    LET s == Entered("put_buf_xfer_progress", t) IN
    IF PutBufComplete(t)
    THEN Report(t, x, l, s, t.transferred, t.err, "complete")
    ELSE LET offered == t.size - t.transferred
             s1 == Did(s, Call("gw_obex_xfer_write", offered, IF ok THEN written ELSE -1))
             s2 == Did(s1, Call("gw_obex_xfer_flush", 0, IF fok THEN 1 ELSE 0))
         IN  IF ~ok
             THEN LET t1 == [t EXCEPT !.err = e]
                  IN  Report(t1, x, l, s1, t1.transferred, t1.err, "error")
             ELSE IF ~fok
             THEN LET t1 == [t EXCEPT !.err = fe]
                  IN  Report(t1, x, l, s2, t1.transferred, t1.err, "error")
             ELSE LET t1 == PutBufAdvance(t, written)
                  IN  Report(t1, x, l, s2, t1.transferred, t1.err, "progress")

\* What read(2) may return for room bytes asked of the source file: all that
\* is left, fewer, or 0 at end of file (or for a zero-byte request).
FileReadLens(l, room) ==
    LET most == Min(IF room > 0 THEN room ELSE 0, Len(l.file) - l.pos)
    IN  IF most = 0 THEN {0} ELSE 1..most

\* A loop body that runs once.
PutAgainNever(t) == FALSE

\* "while (transfer->filled == 0)": the loop of put_xfer_progress goes round
\* again when the transport took everything that was buffered.
PutAgain(t) == t.filled = 0

\* The do/while loop of put_xfer_progress and what follows it, for every
\* result read(2) and gw_obex_xfer_write may give in each round.
RECURSIVE PutLoop(_, _, _, _)
PutLoop(t, x, l, s) ==
    UNION {
        LET s1 == Did(s, Call("read", t.buffer_len - t.filled, len)) IN
        IF len < 0
        THEN {Report(t, x, l, s1, t.transferred, -errno, "error") : errno \in Errnos}
        ELSE LET t1 == [t EXCEPT !.buffer = CopyAt(@, t.filled,
                                               SubSeq(l.file, l.pos + 1, l.pos + len)),
                                 !.filled = @ + len]
                 l1 == [l EXCEPT !.pos = @ + len]
             IN  IF t1.filled = 0
                 THEN {Report(t1, x, l1, s1, t1.transferred, 0, "complete")}
                 ELSE {Report(t1, x, l1, Did(s1, Call("gw_obex_xfer_write", t1.filled, -1)),
                              t1.transferred, e, "error") : e \in XferErrors}
                      \cup UNION {
                        LET t2 == [t1 EXCEPT !.filled = @ - written,
                                             !.transferred = @ + written]
                            x2 == [x EXCEPT !.sent = @ \o SubSeq(t1.buffer, 1, written)]
                            s2 == Did(s1, Call("gw_obex_xfer_write", t1.filled, written))
                        IN  IF PutAgain(t2)
                            THEN UNION {PutLoop(r.t, r.x, r.l, r.s) :
                                            r \in {Outcome(t2, x2, l1, s2)}}
                            ELSE {Report([t2 EXCEPT !.buffer = MoveDown(@, written, t2.filled)],
                                         x2, l1, s2, t2.transferred, 0, "progress")}
                        : written \in 0..t1.filled}
        : len \in {-1} \cup FileReadLens(l, t.buffer_len - t.filled)}

\* put_xfer_progress
PutXferProgress(t, x, l) ==
    PutLoop(Scratch(t), x, l, Entered("put_xfer_progress", t))

(* ------------------------------ actions -------------------------------- *)

Apply(o) ==
    /\ transfer' = o.t
    /\ obex' = o.x
    /\ local' = o.l
    /\ step' = o.s
    /\ life = "live"
    /\ UNCHANGED <<direction, session, life>>

StartCall(o) ==
    /\ transfer.xfer # NULL \/ starts < MaxStarts
    /\ Apply(o)
    /\ starts' = IF transfer.xfer = NULL THEN starts + 1 ELSE starts
    /\ hist' = IF o.s.ret = 0 THEN [cancels |-> 0, terminal |-> FALSE, failed |-> FALSE]
                ELSE hist

Get ==
    /\ direction = "GET"
    /\ \E func \in Funcs \cup {NULL}, fd \in OpenResults(local), errno \in Errnos,
          handle \in {NULL, XFER} :
        StartCall(TransferGet(transfer, obex, local, func, fd, errno, handle))

Put ==
    /\ direction = "PUT"
    /\ \E func \in Funcs \cup {NULL}, fd \in OpenResults(local), statok \in BOOLEAN,
          errno \in Errnos, handle \in {NULL, XFER} :
        StartCall(TransferPut(transfer, obex, local, func, fd, statok, errno, handle))

Abort ==
    /\ Apply(TransferAbort(transfer, obex, local))
    /\ hist' = [hist EXCEPT !.cancels = Min(@ + Len(step'.cbs), 2)]
    /\ UNCHANGED starts

\* A continuation step ends the exchange when it failed or reported the
\* whole object moved.
Ends(o) ==
    \/ o.s.why \in {"error", "complete"}
    \/ o.s.why = "progress" /\ o.t.transferred = o.t.size

Continue(o) ==
    /\ Apply(o)
    /\ hist' = [hist EXCEPT !.terminal = @ \/ Ends(o), !.failed = @ \/ o.s.why = "error"]
    /\ UNCHANGED starts

\* What write(2) may return for count bytes: -1, or how many it took (a
\* write of nothing to a regular file takes nothing and does not fail).
WriteResults(count) == IF count = 0 THEN {0} ELSE -1..count

\* The transport invokes the continuation it was given.
ListingContinuation ==
    /\ obex.cb = "listing"
    /\ \E ok \in BOOLEAN, e \in XferErrors :
       \E bread \in ReadLens(obex, ListingRoom(transfer).buffer_len - transfer.filled) :
       \E done \in DoneResults(obex, bread) :
       \E o \in GetXferListingProgress(transfer, obex, local, ok, e, bread, done) :
            Continue(o)

GetContinuation ==
    /\ obex.cb = "get"
    /\ \E ok \in BOOLEAN, e \in XferErrors, errno \in Errnos :
       \E bread \in ReadLens(obex, Scratch(transfer).buffer_len - transfer.filled) :
       \E w \in WriteResults(bread) :
            Continue(GetXferProgress(transfer, obex, local, ok, e, bread, w, errno))

PutBufContinuation ==
    /\ obex.cb = "put_buf"
    /\ \E ok \in BOOLEAN, e \in XferErrors, fok \in BOOLEAN, fe \in XferErrors :
       \E written \in 0..(IF transfer.size > transfer.transferred
                          THEN transfer.size - transfer.transferred ELSE 0) :
            Continue(PutBufXferProgress(transfer, obex, local, ok, e, written, fok, fe))

PutContinuation ==
    /\ obex.cb = "put"
    /\ \E o \in PutXferProgress(transfer, obex, local) : Continue(o)

Next ==
    \/ Get
    \/ Put
    \/ Abort
    \/ ListingContinuation
    \/ GetContinuation
    \/ PutBufContinuation
    \/ PutContinuation

Spec == Init /\ [][Next]_vars

\* One strategy at a time.
NextGet == Get \/ Abort \/ ListingContinuation \/ GetContinuation
NextListing == Get \/ Abort \/ ListingContinuation
NextGetFile == Get \/ Abort \/ GetContinuation
NextPut == Put \/ Abort \/ PutBufContinuation \/ PutContinuation

SpecGet == (InitListing \/ InitGetFile) /\ [][NextGet]_vars
SpecListing == InitListing /\ [][NextListing]_vars
SpecGetFile == InitGetFile /\ [][NextGetFile]_vars
SpecPut == (InitPutBuf \/ InitPutFile) /\ [][NextPut]_vars

\* A continuation of the PUT from a file in which the local read succeeds
\* and the transport takes at least one of the bytes offered, or in which
\* nothing is left to offer.
PutAccepts ==
    /\ obex.cb = "put"
    /\ \E o \in PutXferProgress(transfer, obex, local) :
        /\ o.s.why = "complete" \/ o.t.transferred > transfer.transferred
        /\ Continue(o)

NextPutFile == Put \/ PutContinuation

\* A PUT from a file that nobody aborts, over a transport that keeps
\* invoking the continuation and does not refuse the offered bytes forever.
SpecPutFileLive == InitPutFile /\ [][NextPutFile]_vars /\ WF_vars(PutAccepts)

(* ------------------- registration, cancellation, release --------------- *)

\* The types a caller may register a transfer with: those above, none, and
\* two that resemble the unpublished families without belonging to them.
RegTypes == Types \cup {NULL, "x-obexd/log", "x-bt"}

\* A Cancel method that does not look at who is calling.
TransferCancelUnchecked(t, x, l, sess, sender, replyok) ==
    LET s0 == Did(Entered("transfer_cancel", t), Call("dbus_message_get_sender", 0, sender))
        s1 == Did(s0, Call("dbus_message_new_method_return", 0, IF replyok THEN 1 ELSE 0))
    IN  IF ~replyok THEN Outcome(t, x, l, s1)
        ELSE LET o == TransferAbort(t, x, l) IN
             Outcome(o.t, o.x, o.l,
                     [o.s EXCEPT !.op = "transfer_cancel",
                                 !.io = s1.io \o <<Call("transfer_abort", 0, 1)>> \o @])

\* The Cancel method of the transfer's object: sender is the bus name the
\* message came from, replyok whether dbus_message_new_method_return
\* returned a message.
TransferCancel(t, x, l, sess, sender, replyok) ==
    LET s0 == Did(Entered("transfer_cancel", t), Call("dbus_message_get_sender", 0, sender)) IN
    IF sender # sess.agent
    THEN Outcome(t, x, l, Did(s0, Call("g_dbus_create_error", 0, 1)))
    ELSE LET s1 == Did(s0, Call("dbus_message_new_method_return", 0, IF replyok THEN 1 ELSE 0)) IN
         IF ~replyok THEN Outcome(t, x, l, s1)
         ELSE LET o == TransferAbort(t, x, l) IN
              Outcome(o.t, o.x, o.l,
                      [o.s EXCEPT !.op = "transfer_cancel",
                                  !.io = s1.io \o <<Call("transfer_abort", 0, 1)>> \o @])

\* transfer_free: the transport and the file system after it, the session
\* after it, and the calls it made.
TransferFree(t, x, l, sess, s) ==
    LET s1 == IF t.xfer # NULL THEN Did(s, Call("gw_obex_xfer_close", 0, 1)) ELSE s
        x1 == IF t.xfer # NULL THEN [x EXCEPT !.cb = "none"] ELSE x
        s2 == IF t.fd > 0 THEN Did(s1, Call("close", t.fd, 0)) ELSE s1
        l1 == IF t.fd > 0 THEN [l EXCEPT !.fds = @ \ {t.fd}] ELSE l
    IN  [x |-> x1, l |-> l1, session |-> Detached(sess), s |-> s2]

\* transfer_unregister
TransferUnregister(t, x, l, sess) ==
    LET s0 == Entered("transfer_unregister", t)
        s1 == IF t.path # NULL THEN Did(s0, Call("g_dbus_unregister_interface", 0, 1)) ELSE s0
        sess1 == IF t.path # NULL THEN [sess EXCEPT !.objects = @ \ {t.path}] ELSE sess
    IN  TransferFree(t, x, l, sess1, s1)



\* No transfer yet: the session of some owner, the static counter at the
\* value earlier registrations left.
InitUnregistered ==
    /\ direction \in {"GET", "PUT"}
    /\ transfer = NULL
    /\ obex = Idle(<<>>, 0)
    /\ local = [file |-> <<>>, pos |-> 0, fds |-> {}]
    /\ starts = 0
    /\ hist = [cancels |-> 0, terminal |-> FALSE, failed |-> FALSE]
    /\ step = NoStep
    /\ \E counter \in 0..1 : session = BaseSession(counter)
    /\ life = "none"

\* The owner registers the transfer; for a PUT from memory it then attaches
\* its data (n bytes; -1: the PUT reads a file).
Register ==
    /\ life = "none"
    /\ session.counter < Len(Paths)
    /\ \E type \in RegTypes, regok \in BOOLEAN, n \in -1..MaxObj :
        LET r == TransferRegister(session, type, regok) IN
        /\ n >= 0 => direction = "PUT" /\ r.ok
        /\ transfer' = IF ~r.ok THEN NULL
                       ELSE IF n >= 0 THEN WithSourceBuffer(r.t, n) ELSE r.t
        /\ session' = r.session
        /\ life' = IF r.ok THEN "live" ELSE "none"
        /\ step' = [Did(Entered("transfer_register", r.t),
                        Call("g_dbus_register_interface", 0,
                             IF Unpublished(type) THEN -1 ELSE IF regok THEN 1 ELSE 0))
                    EXCEPT !.ret = IF r.ok THEN 1 ELSE 0]
    /\ UNCHANGED <<direction, obex, local, starts, hist>>

\* The agent, or some other bus name, calls Cancel on the transfer's object.
Cancel ==
    /\ life = "live"
    /\ transfer.path \in session.objects
    /\ \E sender \in Senders, replyok \in BOOLEAN :
        Apply(TransferCancel(transfer, obex, local, session, sender, replyok))
    /\ hist' = [hist EXCEPT !.cancels = Min(@ + Len(step'.cbs), 2)]
    /\ UNCHANGED starts

\* The owner lets go of the transfer.
Unregister ==
    /\ life = "live"
    /\ LET r == TransferUnregister(transfer, obex, local, session) IN
        /\ obex' = r.x
        /\ local' = r.l
        /\ session' = r.session
        /\ step' = r.s
    /\ life' = "freed"
    /\ UNCHANGED <<transfer, direction, starts, hist>>

NextRegister == Register \/ Cancel \/ Unregister
NextCancel ==
    Get \/ Put \/ Abort \/ Cancel \/ GetContinuation \/ PutBufContinuation \/ PutContinuation
NextLife == Next \/ Cancel \/ Unregister

\* Registration and release alone.
SpecRegister == InitUnregistered /\ [][NextRegister]_vars

\* The transfers that have an object on the bus, with its Cancel method.
InitPublished == Init /\ transfer.path # NULL
SpecCancel == InitPublished /\ [][NextCancel]_vars

\* Every strategy, with cancellation and release at any point.
SpecLife == Init /\ [][NextLife]_vars

(* ------------------------------ properties ----------------------------- *)

StartOps == {"transfer_get", "transfer_put"}

\* The start call asked the transport to begin an exchange / was refused.
Began(s) == Calls(s, "begin") # <<>>
Refused(s) == \E i \in 1..Len(s.io) : s.io[i].call = "begin" /\ s.io[i].res = 0

\* open() or fstat() failed in the call.
LocalFailed(s) ==
    \E i \in 1..Len(s.io) : s.io[i].call \in {"open", "fstat"} /\ s.io[i].res < 0

\* C1: an abort delivers the registered callback exactly when the handle is
\* set at the call (nothing is delivered where no callback is registered):
\* once, with the current transferred count and -ECANCELED, the handle already
\* cleared; with no handle it changes nothing; and no more than one
\* cancellation is delivered between two successful starts.
C1_AbortDeliversOnce ==
    [][step'.op = "transfer_abort" =>
        /\ Len(step'.cbs) =
              (IF transfer.xfer # NULL /\ transfer.callback # NULL THEN 1 ELSE 0)
        /\ \A i \in 1..Len(step'.cbs) :
              /\ step'.cbs[i].func = transfer.callback
              /\ step'.cbs[i].transferred = transfer.transferred
              /\ step'.cbs[i].err = -ECANCELED
              /\ step'.cbs[i].xfer = NULL
        /\ transfer.xfer = NULL =>
              transfer' = transfer /\ obex' = obex /\ local' = local /\ step'.io = <<>>
        /\ transfer'.xfer = NULL
        /\ hist'.cancels <= 1]_vars

\* A second abort with no start since the first, which delivered: it is silent.
C1_SecondAbortSilent ==
    /\ step.op = "transfer_abort"
    /\ step.cbs = <<>>
    /\ hist.cancels = 1
    /\ transfer.callback # NULL

\* C2: once a continuation has reported completion or failure, an abort
\* delivers no callback.
C2_NoCancelAfterTerminal ==
    (step.op = "transfer_abort" /\ hist.terminal) => step.cbs = <<>>

\* C3: a start call made while the handle is set returns -EALREADY and
\* changes nothing: no file opened, no exchange begun, size and callback kept.
C3_AlreadyStartedRejected ==
    [][(step'.op \in StartOps /\ transfer.xfer # NULL) =>
        /\ step'.ret = -EALREADY
        /\ transfer' = transfer /\ obex' = obex /\ local' = local
        /\ step'.io = <<>> /\ step'.cbs = <<>>]_vars

\* A start was rejected on a transfer that has a callback registered.
C3_Rejected ==
    /\ step.op \in StartOps
    /\ step.ret = -EALREADY
    /\ transfer.callback # NULL

\* C4: a start the transport refuses returns -ENOTCONN, leaves the handle
\* unset and the transport without continuation, and neither registers nor
\* invokes the caller's callback.
C4_RefusedStart ==
    [][(step'.op \in StartOps /\ Refused(step')) =>
        /\ step'.ret = -ENOTCONN
        /\ transfer'.xfer = NULL
        /\ obex' = obex /\ obex'.cb = "none"
        /\ transfer'.callback = transfer.callback
        /\ step'.cbs = <<>>]_vars

\* A refused start on a transfer no callback was registered for.
C4_Refused ==
    /\ step.op \in StartOps
    /\ Refused(step)
    /\ step.ret = -ENOTCONN
    /\ transfer.callback = NULL

\* C5: a start in which open() or fstat() fails returns the errno, begins no
\* exchange and leaves the handle unset and the transport without continuation.
C5_LocalFailureReturned ==
    (step.op \in StartOps /\ LocalFailed(step)) =>
        /\ -step.ret \in Errnos
        /\ ~Began(step)
        /\ transfer.xfer = NULL
        /\ obex.cb = "none"

\* C6: the callback by which a GET continuation reports completion carries
\* a transferred count equal to the transfer's size.
C6_CompleteAtSize ==
    step.op \in {"get_xfer_progress", "get_xfer_listing_progress"} =>
        \A i \in 1..Len(step.cbs) :
            step.cbs[i].why = "complete" => step.cbs[i].transferred = transfer.size

\* A listing whose text ends before the delivered bytes do has completed.
C6_ListingCompleted ==
    /\ step.op = "get_xfer_listing_progress"
    /\ step.why = "complete"
    /\ step.cbs # <<>>
    /\ transfer.size > 0
    /\ transfer.size + 1 < transfer.filled

\* The bytes the one transport write of a step was given and took.
Accepted(s) ==
    LET w == Calls(s, "gw_obex_xfer_write")
    IN  IF w # <<>> /\ w[1].res > 0 THEN w[1].res ELSE 0

\* C7: a PUT-from-buffer continuation issues no write when transferred =
\* size, and advances transferred by nothing or by what the transport
\* accepted in the step, never past size.
C7_PutBufAdvance ==
    [][step'.op = "put_buf_xfer_progress" =>
        /\ transfer.transferred = transfer.size =>
              Calls(step', "gw_obex_xfer_write") = <<>>
        /\ Len(Calls(step', "gw_obex_xfer_write")) <= 1
        /\ transfer'.transferred - transfer.transferred \in {0, Accepted(step')}
        /\ transfer'.transferred <= transfer.size]_vars

\* A write the transport took only part of.
C7_ShortWrite ==
    /\ step.op = "put_buf_xfer_progress"
    /\ Accepted(step) > 0
    /\ Accepted(step) < Calls(step, "gw_obex_xfer_write")[1].arg
    /\ transfer.transferred < transfer.size

\* The transport read of a step, and whether it delivered a chunk.
ReadOf(s) == Calls(s, "gw_obex_xfer_read")
ReadChunk(s) == ReadOf(s) # <<>> /\ ReadOf(s)[1].res >= 0

WriteFailed(s) == \E i \in 1..Len(s.io) : s.io[i].call = "write" /\ s.io[i].res < 0
Flushed(s) == Calls(s, "gw_obex_xfer_flush") # <<>>

\* C8 as stated: after every chunk a file GET invokes the callback once with
\* the cumulative count, asks for the next chunk exactly when transferred #
\* size, and at transferred = size reports error 0.
C8_EveryChunk ==
    (step.op = "get_xfer_progress" /\ ReadChunk(step) /\ transfer.callback # NULL) =>
        /\ Len(step.cbs) = 1
        /\ step.cbs[1].transferred = transfer.transferred
        /\ Flushed(step) <=> transfer.transferred # transfer.size
        /\ transfer.transferred = transfer.size => step.cbs[1].err = 0

\* C8 as amended: every continuation of a file GET that reads a chunk adds
\* the chunk to transferred and invokes the registered callback once with the
\* new total and the recorded error; when the local write of the chunk fails
\* that error is recorded and no further request is made; otherwise the next
\* chunk is requested exactly when transferred # size and the recorded error
\* is the one the step was entered with (0 unless an earlier step failed).
C8_EveryStoredChunk ==
    [][(step'.op = "get_xfer_progress" /\ ReadChunk(step')) =>
        /\ transfer'.transferred = transfer.transferred + ReadOf(step')[1].res
        /\ Len(step'.cbs) = (IF transfer.callback # NULL THEN 1 ELSE 0)
        /\ \A i \in 1..Len(step'.cbs) :
              /\ step'.cbs[i].transferred = transfer'.transferred
              /\ step'.cbs[i].err = transfer'.err
        /\ WriteFailed(step') => ~Flushed(step') /\ transfer'.err < 0
        /\ ~WriteFailed(step') =>
              /\ Flushed(step') <=> transfer'.transferred # transfer'.size
              /\ transfer'.err = transfer.err]_vars

\* The last chunk of an object longer than the buffer has been stored and
\* completion reported with error 0.
C8_Completed ==
    /\ step.op = "get_xfer_progress"
    /\ step.why = "complete"
    /\ Calls(step, "write") # <<>>
    /\ step.cbs # <<>>
    /\ step.cbs[1].err = 0
    /\ transfer.size = MaxObj
    /\ transfer.transferred = MaxObj

\* The calls a step made after its last transport write.
AfterLastWrite(s) ==
    LET last == CHOOSE i \in 1..Len(s.io) :
                    /\ s.io[i].call = "gw_obex_xfer_write"
                    /\ \A j \in (i + 1)..Len(s.io) : s.io[j].call # "gw_obex_xfer_write"
    IN  SubSeq(s.io, last + 1, Len(s.io))

\* The continuation of a PUT from a file in which the transport accepted the
\* last bytes of the file.
FinalAccepted ==
    /\ step.op = "put_xfer_progress"
    /\ \E i \in 1..Len(step.io) :
          step.io[i].call = "gw_obex_xfer_write" /\ step.io[i].res >= 1
    /\ transfer.transferred = transfer.size

C10_TerminatedListing ==
    (/\ step.op = "get_xfer_listing_progress"
     /\ step.why \in {"complete", "error"}
     /\ step.cbs # <<>>) =>
        \E i \in 0..transfer.filled :
            /\ i < transfer.buffer_len
            /\ transfer.buffer[i + 1] = NUL
            /\ \A j \in 1..i : transfer.buffer[j] \notin {NUL, UNINIT}
            /\ transfer.size = i

(* C11 *)

\* The bus name a Cancel call came from.
CancelSender(s) == Calls(s, "dbus_message_get_sender")[1].res

\* C11: a Cancel call gets as far as transfer_abort only when its sender is
\* the session's agent; from any other sender it is answered with the
\* NotAuthorized error without aborting anything: the transport handle and
\* the transferred count stay as they were and no callback is delivered.
C11_OnlyAgentCancels ==
    [][step'.op = "transfer_cancel" =>
        /\ Calls(step', "transfer_abort") # <<>> => CancelSender(step') = session.agent
        /\ CancelSender(step') # session.agent =>
            /\ Calls(step', "g_dbus_create_error") # <<>>
            /\ Calls(step', "transfer_abort") = <<>>
            /\ Calls(step', "gw_obex_xfer_abort") = <<>>
            /\ transfer'.xfer = transfer.xfer
            /\ transfer'.transferred = transfer.transferred
            /\ obex'.cb = obex.cb
            /\ step'.cbs = <<>>]_vars

\* A stranger's Cancel has been turned down in the middle of an exchange
\* whose owner listens for callbacks.
C11_StrangerRejected ==
    /\ step.op = "transfer_cancel"
    /\ CancelSender(step) # session.agent
    /\ transfer.xfer # NULL
    /\ transfer.callback # NULL
    /\ transfer.transferred > 0

(* C12 *)

\* C12: whatever state the transfer is in when transfer_unregister is
\* called, afterwards its object path is gone from the bus, no transport
\* handle and no local descriptor is left open, the transfer is not in the
\* session's pending list, and the session has lost exactly the one
\* reference the transfer held.
C12_UnregisterReleasesAll ==
    step.op = "transfer_unregister" =>
        /\ life = "freed"
        /\ transfer.path \notin session.objects
        /\ obex.cb = "none"
        /\ local.fds = {}
        /\ \A i \in 1..Len(session.pending) : session.pending[i] # "transfer"
        /\ session.refs = BaseSession(0).refs

(* C13 *)

\* The continuations that move an object's bytes.
StreamingOps == {"get_xfer_progress", "put_buf_xfer_progress", "put_xfer_progress"}

\* C13: a continuation step that fails delivers the error through the
\* callback once, and once a step of the exchange has failed no later
\* continuation invocation delivers a callback.
C13_FailureIsFinal ==
    [][step'.op \in StreamingOps =>
        /\ (step'.why = "error" /\ transfer'.callback # NULL) =>
                Len(step'.cbs) = 1 /\ step'.cbs[1].err # 0
        /\ hist.failed => step'.cbs = <<>>]_vars

(* C14 *)

\* C14: whenever the size is known (not zero) the transferred count does
\* not exceed it, whatever the strategy and whatever starts, continuations
\* and aborts came before.
C14_TransferredWithinSize ==
    transfer.size # 0 => transfer.transferred <= transfer.size

(* C15 *)

\* C15: the transferred count never goes down from one step to the next,
\* whatever continuations, starts and aborts are interleaved, and the
\* Canceled callback of an abort carries the count as it stood.
C15_TransferredMonotonic ==
    [][/\ transfer'.transferred >= transfer.transferred
       /\ step'.op = "transfer_abort" =>
            \A i \in 1..Len(step'.cbs) : step'.cbs[i].transferred = transfer.transferred]_vars

\* An abort has delivered its callback with bytes already counted.
C15_AbortedMidway ==
    /\ step.op = "transfer_abort"
    /\ step.cbs # <<>>
    /\ step.cbs[1].transferred > 0
    /\ ~hist.terminal

(* C16 *)

\* The types of RegTypes that begin with "x-obex/" or "x-bt/".
InternalKinds == {"x-bt/vcard-listing", "x-obex/folder-listing", "x-bt/vcard"}

\* C16: after transfer_register succeeded the transfer has an object path,
\* registered on the bus, exactly when its type does not begin with
\* "x-obex/" or "x-bt/"; either way it is the last entry of the session's
\* pending list.
C16_PublishedUnlessInternal ==
    (step.op = "transfer_register" /\ step.ret = 1) =>
        /\ transfer.path # NULL <=> transfer.type \notin InternalKinds
        /\ transfer.path # NULL <=> transfer.path \in session.objects
        /\ session.pending # <<>>
        /\ session.pending[Len(session.pending)] = "transfer"

\* A transfer of an internal type has been registered without object path.
C16_InternalRegistered ==
    /\ step.op = "transfer_register"
    /\ step.ret = 1
    /\ transfer.type \in InternalKinds
    /\ transfer.path = NULL
    /\ session.objects = {}
    /\ session.pending = <<"transfer">>

(* C17 *)

\* C17: a transport handle is held only while the exchange is running: in
\* every state where transfer->xfer is set, no continuation of the exchange
\* has reported completion or failure and no abort has ended it.
C17_HandleOnlyWhileRunning ==
    transfer.xfer # NULL => (~hist.terminal /\ ~hist.failed /\ hist.cancels = 0)

(* C18 *)

\* C18: every continuation of a PUT from memory leaves transferred larger
\* by exactly the count the transport's write accepted in it, also when the
\* flush that follows the write fails.
C18_AcceptedAlwaysCounted ==
    [][step'.op = "put_buf_xfer_progress" =>
        transfer'.transferred = transfer.transferred + Accepted(step')]_vars

(* C19 *)

\* C19: in a PUT from a file, after every continuation and whatever part of
\* each write the transport took, the bytes accepted so far are the first
\* bytes of the file in order, transferred is their number, the bytes read
\* from the file and not yet accepted sit at buffer[0..filled), and the
\* continuation's first read asked for the room after them.
C19_AcceptedIsFilePrefix ==
    [][step'.op = "put_xfer_progress" =>
        /\ obex'.sent = SubSeq(local'.file, 1, Len(obex'.sent))
        /\ transfer'.transferred = Len(obex'.sent)
        /\ transfer'.filled = local'.pos - Len(obex'.sent)
        /\ SubSeq(transfer'.buffer, 1, transfer'.filled)
                = SubSeq(local'.file, Len(obex'.sent) + 1, local'.pos)
        /\ Calls(step', "read")[1].arg = Scratch(transfer).buffer_len - transfer.filled]_vars

\* A second short write in a row: a remainder was shifted down, more of the
\* file appended behind it, and again only part was taken.
C19_ShortWriteAfterShortWrite ==
    /\ step.op = "put_xfer_progress"
    /\ step.why = "progress"
    /\ transfer.filled > 0
    /\ Accepted(step) > 0
    /\ transfer.transferred > Accepted(step)
    /\ Calls(step, "read")[1].arg < transfer.buffer_len
    /\ Calls(step, "read")[1].res > 0

(* C20 *)

\* The continuation of a PUT from a file has reported completion: the file
\* is read to its end, nothing is buffered, everything was accepted, and the
\* callback, if there is one, got error 0.
PutFileCompleted ==
    /\ step.op = "put_xfer_progress"
    /\ step.why = "complete"
    /\ local.pos = Len(local.file)
    /\ transfer.filled = 0
    /\ transfer.transferred = transfer.size
    /\ obex.sent = local.file
    /\ transfer.callback # NULL => Len(step.cbs) = 1
    /\ \A i \in 1..Len(step.cbs) :
            step.cbs[i].err = 0 /\ step.cbs[i].transferred = transfer.size

\* C20: once a PUT from a file is under way, and the transport keeps
\* invoking the continuation and sooner or later takes at least one of the
\* bytes offered, a continuation reports completion; and the read/write
\* loop inside one continuation ends, after at most one round per byte of
\* the file plus one.
C20_PutFileCompletes ==
    /\ [](step.op = "put_xfer_progress" =>
            Len(Calls(step, "read")) <= Len(local.file) + 1)
    /\ (obex.cb = "put") ~> PutFileCompleted

\* Completion of a file larger than the buffer, reported to a callback.
C20_LargeFileCompleted ==
    /\ PutFileCompleted
    /\ Len(local.file) > DEFAULT_BUFFER_SIZE
    /\ step.cbs # <<>>

(* C21 *)

\* The step's write(2) took fewer bytes than the chunk it was given.
ShortLocalWrite(s) ==
    LET w == Calls(s, "write")
    IN  w # <<>> /\ w[1].res >= 0 /\ w[1].res < w[1].arg

\* C21: in a GET into a file, a continuation whose local write took fewer
\* bytes than the chunk just read fails: its callback carries a non-zero
\* error, it does not report completion, and neither does the continuation
\* that follows it.
C21_ShortWriteFails ==
    [][/\ (step'.op = "get_xfer_progress" /\ ShortLocalWrite(step')) =>
            /\ step'.why = "error"
            /\ \A i \in 1..Len(step'.cbs) : step'.cbs[i].err # 0
       /\ (step.op = "get_xfer_progress" /\ ShortLocalWrite(step)
             /\ step'.op = "get_xfer_progress") =>
            ~(step'.why = "complete" /\ transfer'.err = 0)]_vars

(* C22 *)

\* The descriptors a step closed.
Closed(s) == {Calls(s, "close")[i].arg : i \in 1..Len(Calls(s, "close"))} \ {0}

\* C22: whatever is done with a transfer, failed and aborted starts followed
\* by further starts included, it has at most one local descriptor open at
\* a time, a step closes only descriptors that are open, and none is open
\* any more once the transfer is unregistered.
C22_OneDescriptor ==
    [][/\ Cardinality(local'.fds) <= 1
       /\ Closed(step') \subseteq local.fds
       /\ life' = "freed" => local'.fds = {}]_vars

(* C23 *)

\* The transfer holds data its owner attached (a scratch buffer has a
\* recorded capacity, attached data has none).
CallerBuffer(t) == t.buffer # <<>> /\ t.buffer_len = 0

\* The transfer holds a local descriptor.
HasDescriptor(t) == t.fd > 0

\* C23: while an exchange is open, a PUT has exactly one source, the data
\* its owner attached or a local descriptor, and a GET exactly one sink, the
\* listing accumulation or a local descriptor, and the continuation
\* installed is the one for it; also for an exchange started after an
\* earlier one on the same transfer was aborted.
C23_OneSourceOrSink ==
    /\ obex.cb \in {"put", "put_buf"} =>
        /\ CallerBuffer(transfer) # HasDescriptor(transfer)
        /\ obex.cb = "put_buf" <=> CallerBuffer(transfer)
    /\ obex.cb \in {"get", "listing"} =>
        /\ IsListing(transfer.type) # HasDescriptor(transfer)
        /\ obex.cb = "listing" <=> IsListing(transfer.type)

(* C24 *)

\* The index whose byte get_xfer_listing_progress compares with the
\* terminator when the object is done.
LastByteIndex(t) == t.filled - 1

\* Index i lies inside the transfer's buffer.
InBuffer(t, i) == i >= 0 /\ i < t.buffer_len

\* C24: the fill level stays between 0 and the buffer's capacity, and when a
\* listing is done the byte checked at index filled - 1 lies inside the
\* buffer, as does the terminator at index filled when the last byte is not
\* one; also for an object that delivered no byte at all.
C24_IndicesInBuffer ==
    /\ transfer.filled >= 0
    /\ transfer.filled <= transfer.buffer_len
    /\ transfer.buffer_len > 0 => Len(transfer.buffer) = transfer.buffer_len
    /\ (step.op = "get_xfer_listing_progress" /\ step.why = "complete") =>
        /\ InBuffer(transfer, LastByteIndex(transfer))
        /\ \/ transfer.buffer[LastByteIndex(transfer) + 1] = NUL
           \/ /\ InBuffer(transfer, transfer.filled)
              /\ transfer.buffer[transfer.filled + 1] = NUL

(* C25 *)

\* C25: when transfer_register cannot register the object path it returns
\* no transfer and the session is as before the call: the same pending
\* list, the same reference count, the same objects on the bus.
C25_FailedRegisterLeavesSession ==
    [][(step'.op = "transfer_register" /\ step'.ret = 0) =>
        /\ transfer' = NULL
        /\ life' = "none"
        /\ session'.pending = session.pending
        /\ session'.refs = session.refs
        /\ session'.objects = session.objects
        /\ session'.agent = session.agent]_vars

\* A registration has failed at g_dbus_register_interface.
C25_RegisterFailed ==
    /\ step.op = "transfer_register"
    /\ step.ret = 0
    /\ Calls(step, "g_dbus_register_interface")[1].res = 0
    /\ life = "none"
    /\ session.refs = BaseSession(0).refs

====
